---- MODULE Spec2Model ----
(***************************************************************************)
(* A model of the GLB smoothing service: the /process request handler      *)
(* (api_server.py), the process_model pipeline and its stages              *)
(* (model_smoother.py).  The mesh operations the stages call on the mesh   *)
(* object (smoothing filter, triangle / vertex removal, orientation) are   *)
(* written out as operators on an explicit mesh value.                     *)
(*                                                                         *)
(* A mesh is a record                                                      *)
(*   verts   : sequence of positions, a position being <<x, y, z>> in      *)
(*             fixed-point units, or NaN                                   *)
(*   tris    : sequence of triangles <<a, b, c>>, 1-based vertex indices   *)
(*   uvs     : per-triangle-corner texture coordinates (<<>> when absent)  *)
(*   colors  : per-vertex colours (<<>> when absent)                       *)
(*   normals : per-vertex normals (<<>> when absent)                       *)
(***************************************************************************)
EXTENDS Integers, Sequences, FiniteSets, TLC

\* ------------------------------------------------------------ sequences

RECURSIVE SetToSeq(_)
\* The elements of a finite set of integers in ascending order.
SetToSeq(S) ==
  IF S = {} THEN <<>>
  ELSE LET m == CHOOSE x \in S : \A y \in S : x <= y
       IN  <<m>> \o SetToSeq(S \ {m})

\* The elements of seq at the indices in S, in their original order
\* (the in-place compaction loops "x[k] = x[i]; k++" followed by resize(k)).
Sub(seq, S) ==
  LET ix == SetToSeq(S) IN [i \in 1..Len(ix) |-> seq[ix[i]]]

Range(seq) == {seq[i] : i \in 1..Len(seq)}

\* ------------------------------------------------------------- geometry

\* What a floating-point position becomes after 0/0.
NaN == <<>>

VAdd(p, q) == <<p[1] + q[1], p[2] + q[2], p[3] + q[3]>>
VSub(p, q) == <<p[1] - q[1], p[2] - q[2], p[3] - q[3]>>
Cross(u, v) ==
  <<u[2] * v[3] - u[3] * v[2], u[3] * v[1] - u[1] * v[3], u[1] * v[2] - u[2] * v[1]>>
NormSq(u) == u[1] * u[1] + u[2] * u[2] + u[3] * u[3]
Zero3 == <<0, 0, 0>>

\* The (unnormalised) normal of triangle t of vertex list vs; NaN when a
\* corner is NaN.
TriNormal(vs, t) ==
  IF vs[t[1]] = NaN \/ vs[t[2]] = NaN \/ vs[t[3]] = NaN THEN NaN
  ELSE Cross(VSub(vs[t[2]], vs[t[1]]), VSub(vs[t[3]], vs[t[1]]))

\* The area of triangle t, as the monotone measure (2 * area)^2.  A NaN area
\* fails every comparison "area > 0", exactly as the value 0 does here.
TriArea(vs, t) ==
  LET n == TriNormal(vs, t) IN IF n = NaN THEN 0 ELSE NormSq(n)

\* --------------------------------------------------- mesh attribute tests

HasVertices(m) == Len(m.verts) > 0
HasTriangles(m) == Len(m.verts) > 0 /\ Len(m.tris) > 0
HasTriangleUvs(m) == HasTriangles(m) /\ Len(m.uvs) = 3 * Len(m.tris)
HasVertexColors(m) == Len(m.verts) > 0 /\ Len(m.colors) = Len(m.verts)
HasVertexNormals(m) == Len(m.verts) > 0 /\ Len(m.normals) = Len(m.verts)

EmptyMesh == [verts |-> <<>>, tris |-> <<>>, uvs |-> <<>>, colors |-> <<>>, normals |-> <<>>]

\* ------------------------------------------------ make_print_ready steps

\* A triangle none of whose corners repeat a vertex index.
NonDegenerate(t) == t[1] # t[2] /\ t[2] # t[3] /\ t[3] # t[1]

\* mesh.remove_degenerate_triangles(): drops the triangles that name a vertex
\* twice.  Only the triangle list is compacted; triangle_uvs is not touched.
RemoveDegenerateTriangles(m) ==
  [m EXCEPT !.tris = SelectSeq(m.tris, NonDegenerate)]

\* The key under which remove_duplicated_triangles files a triangle: its
\* rotation that starts at the smallest index.
CanonTriangle(t) ==
  IF t[1] <= t[2]
  THEN IF t[1] <= t[3] THEN <<t[1], t[2], t[3]>> ELSE <<t[3], t[1], t[2]>>
  ELSE IF t[2] <= t[3] THEN <<t[2], t[3], t[1]>> ELSE <<t[3], t[1], t[2]>>

\* mesh.remove_duplicated_triangles(): keeps the first triangle of every key.
\* Only the triangle list is compacted; triangle_uvs is not touched.
RemoveDuplicatedTriangles(m) ==
  LET ts == m.tris
      keep == {i \in 1..Len(ts) :
                 \A j \in 1..(i - 1) : CanonTriangle(ts[j]) # CanonTriangle(ts[i])}
  IN  [m EXCEPT !.tris = Sub(ts, keep)]

\* Two vertices at the same coordinates (a NaN coordinate equals nothing).
Coincide(vs, i, j) == vs[i] # NaN /\ vs[i] = vs[j]

\* mesh.remove_duplicated_vertices(): keeps the first vertex of every
\* position, carries normals and colours along, and renumbers the triangles.
RemoveDuplicatedVertices(m) ==
  LET vs == m.verts
      n == Len(vs)
      first(i) == CHOOSE j \in 1..i :
                    /\ (j = i \/ Coincide(vs, j, i))
                    /\ \A h \in 1..(j - 1) : ~Coincide(vs, h, i)
      keep == {i \in 1..n : first(i) = i}
      newIndex(i) == Cardinality({j \in keep : j <= first(i)})
      remap(t) == <<newIndex(t[1]), newIndex(t[2]), newIndex(t[3])>>
  IN  [m EXCEPT
         !.verts = Sub(vs, keep),
         !.normals = IF HasVertexNormals(m) THEN Sub(m.normals, keep) ELSE m.normals,
         !.colors = IF HasVertexColors(m) THEN Sub(m.colors, keep) ELSE m.colors,
         !.tris = [i \in 1..Len(m.tris) |-> remap(m.tris[i])]]

\* The three undirected edges of a triangle, in corner order.
EdgesOf(t) == <<{t[1], t[2]}, {t[2], t[3]}, {t[3], t[1]}>>

AllEdges(ts) == UNION {Range(EdgesOf(ts[i])) : i \in 1..Len(ts)}

\* The entries of the edge-to-triangles map for edge e: one per triangle
\* corner pair that spans e.
EdgeRefs(ts, e) ==
  {r \in (1..Len(ts)) \X (1..3) : EdgesOf(ts[r[1]])[r[2]] = e}

\* An edge is manifold when it has exactly one or two entries.
NonManifoldEdges(ts) ==
  {e \in AllEdges(ts) : Cardinality(EdgeRefs(ts, e)) \notin {1, 2}}

RECURSIVE MarkSmallest(_, _, _)
\* Marks (area -1) the k smallest live triangles among idxs, the earliest
\* triangle first among equal areas.
MarkSmallest(areas, idxs, k) ==
  LET cand == {i \in idxs : areas[i] > 0}
  IN  IF k <= 0 \/ cand = {} THEN areas
      ELSE LET i == CHOOSE x \in cand :
                      \A y \in cand : areas[x] < areas[y] \/ (areas[x] = areas[y] /\ x <= y)
           IN  MarkSmallest([areas EXCEPT ![i] = -1], idxs, k - 1)

\* One non-manifold edge handled: all but two of its live triangles marked.
MarkEdge(ts, areas, e) ==
  LET refs == EdgeRefs(ts, e)
      live == Cardinality({r \in refs : areas[r[1]] > 0})
  IN  MarkSmallest(areas, {r[1] : r \in refs}, live - 2)

RECURSIVE SweepEdges(_, _, _)
\* One pass over the edge map.  The map is a hash map: the order in which the
\* non-manifold edges are met is the container's, so every order is an outcome.
SweepEdges(ts, areas, pending) ==
  IF pending = {} THEN {areas}
  ELSE UNION {SweepEdges(ts, MarkEdge(ts, areas, e), pending \ {e}) : e \in pending}

RECURSIVE NonManifoldLoop(_, _)
\* The while loop of remove_non_manifold_edges: sweep, then drop every
\* triangle whose area is not > 0 (marked, zero or NaN), until a sweep meets
\* no non-manifold edge.  The set of triangle lists it can end with.
NonManifoldLoop(ts, areas) ==
  LET nm == NonManifoldEdges(ts)
  IN  UNION {LET keep == {i \in 1..Len(ts) : a[i] > 0}
             IN  IF nm = {} THEN {Sub(ts, keep)}
                 ELSE NonManifoldLoop(Sub(ts, keep), Sub(a, keep))
             : a \in SweepEdges(ts, areas, nm)}

\* mesh.remove_non_manifold_edges().  Only the triangle list is compacted;
\* triangle_uvs is not touched.
RemoveNonManifoldEdges(m) ==
  LET areas == [i \in 1..Len(m.tris) |-> TriArea(m.verts, m.tris[i])]
  IN  {[m EXCEPT !.tris = ts] : ts \in NonManifoldLoop(m.tris, areas)}

RECURSIVE SumNormals(_, _, _)
\* The sum of the normals of the triangles ts[1..k] that have corner v.
SumNormals(vs, ts, v) ==
  IF ts = <<>> THEN Zero3
  ELSE LET rest == SumNormals(vs, Tail(ts), v)
           n == TriNormal(vs, Head(ts))
       IN  IF v \notin Range(Head(ts)) THEN rest
           ELSE IF rest = NaN \/ n = NaN THEN NaN
           ELSE VAdd(rest, n)

\* mesh.compute_vertex_normals(): per vertex, the summed normals of its
\* triangles; a zero or NaN sum normalises to the default <<0, 0, 1>>.
ComputeVertexNormals(m) ==
  LET nrm(v) == LET s == SumNormals(m.verts, m.tris, v)
                IN  IF s = NaN \/ s = Zero3 THEN <<0, 0, 1>> ELSE s
  IN  [m EXCEPT !.normals = [v \in 1..Len(m.verts) |-> nrm(v)]]

\* ----------------------------------------------------- orient_triangles

\* edge_to_orientation as the set of directed edges <<a, b>> recorded so far.
EdgeKnown(eo, a, b) == <<a, b>> \in eo \/ <<b, a>> \in eo

\* VerifyAndAdd(a, b) on state st = [ok, eo]: fails when the edge is already
\* recorded in the same direction, records it when it is new.
VerifyAndAdd(st, a, b) ==
  IF ~st.ok THEN st
  ELSE IF <<a, b>> \in st.eo THEN [ok |-> FALSE, eo |-> st.eo]
  ELSE IF <<b, a>> \in st.eo THEN st
  ELSE [ok |-> TRUE, eo |-> st.eo \cup {<<a, b>>}]

\* The triangle after the "one flip is allowed" step: the first of its edges
\* that is already recorded in the same direction has its two corners swapped.
FlipOnce(eo, t) ==
  IF <<t[1], t[2]>> \in eo THEN <<t[2], t[1], t[3]>>
  ELSE IF <<t[2], t[3]>> \in eo THEN <<t[1], t[3], t[2]>>
  ELSE IF <<t[3], t[1]>> \in eo THEN <<t[3], t[2], t[1]>>
  ELSE t

\* The iteration order of a hash set of triangle indices.  It is fixed by the
\* C++ standard library the build links, not by the program: ascending or
\* descending index order here.
HashOrders == {"ascending", "descending"}

HashOrder(S, order) ==
  LET up == SetToSeq(S)
  IN  IF order = "ascending" THEN up
      ELSE [i \in 1..Len(up) |-> up[Len(up) + 1 - i]]

\* The triangles that share edge e, as the hash set holding them iterates.
AdjacentTriangles(ts, e, order) ==
  HashOrder({i \in 1..Len(ts) : e \in Range(EdgesOf(ts[i]))}, order)

RECURSIVE OrientRun(_, _, _, _, _)
\* The traversal loop of orient_triangles from the state (triangles, unvisited
\* set, queue, recorded directions): the triangle list it ends with.  With an
\* empty queue the next seed is the first element of the hash set of unvisited
\* triangles.  When a triangle cannot be made to agree the function returns at
\* once and leaves the triangles not yet visited as they are.
OrientRun(ts, unv, q, eo, order) ==
  IF unv = {} THEN ts
  ELSE IF q # <<>> /\ Head(q) \notin unv THEN OrientRun(ts, unv, Tail(q), eo, order)
  ELSE
    LET tidx == IF q = <<>> THEN Head(HashOrder(unv, order)) ELSE Head(q)
        q1 == IF q = <<>> THEN q ELSE Tail(q)
        t == ts[tidx]
        fresh == ~(EdgeKnown(eo, t[1], t[2]) \/ EdgeKnown(eo, t[2], t[3])
                     \/ EdgeKnown(eo, t[3], t[1]))
        w == IF fresh THEN t ELSE FlipOnce(eo, t)
        ts1 == [ts EXCEPT ![tidx] = w]
        st == VerifyAndAdd(VerifyAndAdd(VerifyAndAdd([ok |-> TRUE, eo |-> eo],
                 w[1], w[2]), w[2], w[3]), w[3], w[1])
        eo1 == IF fresh THEN eo \cup {<<t[1], t[2]>>, <<t[2], t[3]>>, <<t[3], t[1]>>}
               ELSE st.eo
        q2 == q1 \o AdjacentTriangles(ts, EdgesOf(t)[1], order)
                 \o AdjacentTriangles(ts, EdgesOf(t)[2], order)
                 \o AdjacentTriangles(ts, EdgesOf(t)[3], order)
    IN  IF ~fresh /\ ~st.ok THEN ts1
        ELSE OrientRun(ts1, unv \ {tidx}, q2, eo1, order)

\* mesh.orient_triangles(); its boolean result is discarded by the caller.
OrientTriangles(m, order) ==
  IF ~HasTriangles(m) THEN m
  ELSE [m EXCEPT !.tris = OrientRun(m.tris, 1..Len(m.tris), <<>>, {}, order)]

\* ------------------------------------------- smooth_mesh_preserve_texture

\* lambda_filter = 0.5 and the inflation offset 0.01, in hundredths.
LambdaPct == 50
MuOffsetPct == 1
MuPct == 0 - LambdaPct - MuOffsetPct

\* The adjacency list: the vertices that share a triangle with v (a triangle
\* naming v twice makes v its own neighbour).
Neighbours(ts, v) ==
  UNION {IF ts[i][j] = v THEN {ts[i][k] : k \in (1..3) \ {j}} ELSE {}
           : i \in 1..Len(ts), j \in 1..3}

RECURSIVE VSum(_, _)
\* The sum of the vectors xs[i], i in S; NaN when one of them is NaN.
VSum(xs, S) ==
  IF S = {} THEN Zero3
  ELSE LET i == CHOOSE x \in S : TRUE
           rest == VSum(xs, S \ {i})
       IN  IF rest = NaN \/ xs[i] = NaN THEN NaN ELSE VAdd(rest, xs[i])

\* One Laplacian pass over a per-vertex vector attribute with factor pct/100:
\* x + pct/100 * (mean of the neighbours - x), in fixed point.  A vertex
\* without neighbours divides 0 by 0.
LaplacianPass(xs, ts, pct) ==
  [v \in 1..Len(xs) |->
     LET nb == Neighbours(ts, v)
         d == Cardinality(nb)
         s == VSum(xs, nb)
     IN  IF d = 0 \/ s = NaN \/ xs[v] = NaN THEN NaN
         ELSE <<xs[v][1] + (pct * (s[1] - d * xs[v][1])) \div (100 * d),
                xs[v][2] + (pct * (s[2] - d * xs[v][2])) \div (100 * d),
                xs[v][3] + (pct * (s[3] - d * xs[v][3])) \div (100 * d)>>]

RECURSIVE TaubinPasses(_, _, _)
\* n >= 1 iterations, each a pass with lambda followed by a pass with mu.
TaubinPasses(xs, ts, n) ==
  IF n <= 0 THEN xs
  ELSE TaubinPasses(LaplacianPass(LaplacianPass(xs, ts, LambdaPct), ts, MuPct), ts, n - 1)

\* What an output array that no pass wrote can hold (its elements are
\* allocated and never assigned): one value for all elements, zero or not.
Unwritten == {Zero3, <<1, 1, 1>>}

\* mesh.filter_smooth_taubin(n, lambda, mu): a new mesh with the input's
\* triangles and filtered positions, normals and colours; it carries no
\* triangle_uvs.  With no iteration run the output arrays are never written.
FilterSmoothTaubin(m, n) ==
  LET out(xs, filtered, g) ==
        IF n <= 0 THEN [i \in 1..Len(xs) |-> g]
        ELSE IF filtered THEN TaubinPasses(xs, m.tris, n)
        ELSE [i \in 1..Len(xs) |-> g]
  IN  {[verts |-> out(m.verts, TRUE, g),
        tris |-> m.tris,
        uvs |-> <<>>,
        colors |-> out(m.colors, HasVertexColors(m), g),
        normals |-> out(m.normals, HasVertexNormals(m), g)] : g \in Unwritten}

RestoreAttributesMut(m, sm) ==
  [sm EXCEPT !.uvs = IF HasTriangleUvs(m) THEN m.uvs ELSE sm.uvs]

\* The restore step: triangle_uvs and vertex_colors saved from the input are
\* put back on the filtered mesh.
RestoreAttributes(m, sm) ==
  [sm EXCEPT !.uvs = IF HasTriangleUvs(m) THEN m.uvs ELSE sm.uvs,
             !.colors = IF HasVertexColors(m) THEN m.colors ELSE sm.colors]

\* smooth_mesh_preserve_texture(mesh, iterations): filter, restore the saved
\* attributes, recompute the vertex normals.
SmoothMeshPreserveTexture(m, n) ==
  {ComputeVertexNormals(RestoreAttributes(m, sm)) : sm \in FilterSmoothTaubin(m, n)}

\* ------------------------------------------------- remove_noise_and_bumps

\* The quantile level 0.01, in hundredths.
QuantilePct == 1

\* The i-th smallest element of the sequence d.
OrderStat(d, i) ==
  CHOOSE v \in Range(d) :
    /\ Cardinality({j \in 1..Len(d) : d[j] < v}) < i
    /\ i <= Cardinality({j \in 1..Len(d) : d[j] <= v})

\* 100 * np.quantile(d, 0.01) for a non-empty d: linear interpolation between
\* the order statistics around the position (n - 1) * 0.01.
Quantile100(d) ==
  LET pos == (Len(d) - 1) * QuantilePct
      k == pos \div 100
      r == pos % 100
      a == OrderStat(d, k + 1)
  IN  IF r = 0 THEN 100 * a ELSE 100 * a + r * (OrderStat(d, k + 2) - a)

VerticesToRemoveMut(d) ==
  LET q == Quantile100(d) IN {i \in 1..Len(d) : 100 * d[i] <= q}

\* vertices_to_remove = densities < np.quantile(densities, 0.01), as the set of
\* masked vertex indices.
VerticesToRemove(d) ==
  LET q == Quantile100(d) IN {i \in 1..Len(d) : 100 * d[i] < q}

\* mesh.remove_vertices_by_mask(mask): drops the masked vertices with their
\* normals and colours, drops every triangle that names one, renumbers.
RemoveVerticesByMask(m, mask) ==
  LET keep == (1..Len(m.verts)) \ mask
      newIndex(i) == Cardinality({j \in keep : j <= i})
      keepT == {i \in 1..Len(m.tris) : Range(m.tris[i]) \subseteq keep}
      ts == Sub(m.tris, keepT)
  IN  [m EXCEPT
         !.verts = Sub(m.verts, keep),
         !.normals = IF HasVertexNormals(m) THEN Sub(m.normals, keep) ELSE m.normals,
         !.colors = IF HasVertexColors(m) THEN Sub(m.colors, keep) ELSE m.colors,
         !.tris = [i \in 1..Len(ts) |->
                     <<newIndex(ts[i][1]), newIndex(ts[i][2]), newIndex(ts[i][3])>>]]

\* ------------------------------------------------------ make_print_ready

RepairPcs ==
  <<"repair_degenerate", "repair_dup_tris", "repair_dup_verts", "repair_non_manifold",
    "repair_orient">>

\* The meshes one step of make_print_ready can leave, by the step's position.
\* The is_watertight / is_vertex_manifold / is_edge_manifold calls only print.
RepairStep(step, m, order) ==
  CASE step = "repair_degenerate" -> {RemoveDegenerateTriangles(m)}
    [] step = "repair_dup_tris" -> {RemoveDuplicatedTriangles(m)}
    [] step = "repair_dup_verts" -> {RemoveDuplicatedVertices(m)}
    [] step = "repair_non_manifold" -> RemoveNonManifoldEdges(m)
    [] step = "repair_orient" -> {OrientTriangles(ComputeVertexNormals(m), order)}

\* ----------------------------------------------------------------- bounds

\* smooth_iterations ranges over 0..MaxIter.
MaxIter == 2
\* In the trimming specification each of the low density values occurs
\* 0..MaxLow times and the high value 0..MaxBulk times.
MaxLow == 3
MaxBulk == 110

\* ----------------------------------------------------------------- inputs

PA == <<0, 0, 0>>
PB == <<40, 0, 0>>
PC == <<0, 40, 0>>
PD == <<0, 0, 40>>
PE == <<40, 40, 0>>
\* Points of a convex curve: no three collinear.
PCurve(i) == <<10 * i, 10 * i * i, 0>>

\* A mesh as the loader yields it: attributes either absent or index-aligned.
LoadedMesh(vs, ts, uv, col, nrm) ==
  [verts |-> vs,
   tris |-> ts,
   uvs |-> IF uv THEN [i \in 1..(3 * Len(ts)) |-> i] ELSE <<>>,
   colors |-> IF col THEN [i \in 1..Len(vs) |-> <<10 * i, 0, 100>>] ELSE <<>>,
   normals |-> IF nrm THEN [i \in 1..Len(vs) |-> <<0, 0, 1>>] ELSE <<>>]

\* A 5-triangle Moebius band on vertices 1..5 after a doubled triangle whose
\* two copies use coincident vertices 6 and 9.
BandTris == <<<<1, 2, 3>>, <<2, 3, 4>>, <<3, 4, 5>>, <<4, 5, 1>>, <<5, 1, 2>>>>
BandVerts == [i \in 1..5 |-> PCurve(i)]

Geometries ==
  { [vs |-> <<>>, ts |-> <<>>],                                      \* undecodable / empty
    [vs |-> <<PA, PB, PC>>, ts |-> <<>>],                            \* points only
    [vs |-> <<PA, PB, PC>>, ts |-> <<<<1, 2, 3>>>>],                 \* one triangle
    [vs |-> <<PA, PB, PC, PD>>,
     ts |-> <<<<1, 2, 3>>, <<1, 2, 4>>, <<1, 3, 4>>, <<2, 3, 4>>>>], \* tetrahedron
    [vs |-> <<PA, PB, PC>>, ts |-> <<<<1, 1, 2>>, <<1, 2, 3>>>>],    \* index-degenerate
    [vs |-> <<PA, PB, PC, PA>>, ts |-> <<<<1, 2, 3>>, <<4, 2, 3>>>>], \* coincident vertices
    [vs |-> <<PA, PB, PC, PD, PE>>,
     ts |-> <<<<1, 2, 3>>, <<1, 2, 4>>, <<1, 2, 5>>>>],              \* three on one edge
    [vs |-> <<PA, PB, PC, PD>>, ts |-> <<<<1, 2, 3>>>>],             \* isolated vertex
    [vs |-> <<PA, PB, PC>>, ts |-> <<<<1, 2, 3>>, <<2, 3, 1>>>>],    \* repeated triangle
    [vs |-> BandVerts, ts |-> BandTris],                             \* Moebius band
    [vs |-> BandVerts \o <<PCurve(6), PCurve(7), PCurve(8), PCurve(6)>>,
     ts |-> <<<<6, 7, 8>>, <<9, 7, 8>>>> \o BandTris] }

InputMeshes ==
  {LoadedMesh(g.vs, g.ts, uv, col, nrm) : g \in Geometries, uv \in BOOLEAN,
                                          col \in BOOLEAN, nrm \in BOOLEAN}

\* What the surface reconstruction can hand back: a new mesh and one density
\* per vertex.
ReconOutcomes ==
  { [mesh |-> LoadedMesh(<<PA, PB, PC>>, <<<<1, 2, 3>>>>, FALSE, FALSE, TRUE),
     densities |-> <<5, 5, 5>>],
    [mesh |-> LoadedMesh(<<PA, PB, PC>>, <<<<1, 2, 3>>>>, FALSE, TRUE, TRUE),
     densities |-> <<1, 2, 3>>],
    [mesh |-> LoadedMesh(<<PA, PB, PC, PD>>, <<<<1, 2, 3>>, <<2, 3, 4>>>>, FALSE, TRUE, TRUE),
     densities |-> <<1, 5, 5, 5>>],
    [mesh |-> LoadedMesh(<<PA, PB, PC, PD>>, <<<<1, 2, 3>>, <<1, 3, 4>>>>, FALSE, FALSE, TRUE),
     densities |-> <<2, 2, 2, 3>>],
    [mesh |-> LoadedMesh(<<PA, PB>>, <<>>, FALSE, FALSE, FALSE),
     densities |-> <<1, 2>>],
    [mesh |-> EmptyMesh, densities |-> <<>>] }

\* Where an unexpected exception (I/O error, out of memory) is raised, if
\* anywhere.
Faults ==
  {"none", "read", "load", "smooth", "remove_noise_and_bumps", "make_print_ready", "save",
   "unlink"}

Requests ==
  [filename_ok : BOOLEAN, mesh : InputMeshes, iterations : 0..MaxIter,
   remove_bumps : BOOLEAN, fault : Faults]

\* ------------------------------------------------------------------ state

VARIABLES
  pc,          \* position of the request / of process_model
  inp,         \* the request: file name check, decoded content, parameters, fault
  inputTmp,    \* the temporary input file exists on disk
  inputPath,   \* the handler's input_path variable is set
  outputFile,  \* the output file on disk: [exists, mesh]
  response,    \* "none", "400", "500" or "file"
  mesh,        \* process_model's mesh variable
  trace,       \* the stages entered so far, in order
  failedAt,    \* the stage that raised, or "none"
  result,      \* process_model's return value: "pending", "true", "false"
  smoothIn,    \* the mesh given to smooth_mesh_preserve_texture
  smoothOut,   \* the mesh it returned
  repairIn,    \* the mesh given to make_print_ready
  rstep,       \* repair specification: next step of the pass, 1..5, 6 when done
  rpass,       \* repair specification: pass number
  rfirst,      \* repair specification: result of the first pass
  dens,        \* trimming specification: the densities
  removed,     \* trimming specification: the masked vertices
  tdone,       \* trimming specification: the mask has been computed
  hashOrder    \* the hash-set iteration order of the build that is running

hvars == <<pc, inp, inputTmp, inputPath, outputFile, response>>
pvars == <<mesh, trace, failedAt, result, smoothIn, smoothOut, repairIn>>
rvars == <<rstep, rpass, rfirst>>
tvars == <<dens, removed, tdone>>
vars == <<hvars, pvars, rvars, tvars, hashOrder>>

NoFile == [exists |-> FALSE, mesh |-> EmptyMesh]

HandlerInit ==
  /\ pc = "start"
  /\ inputTmp = FALSE
  /\ inputPath = FALSE
  /\ outputFile = NoFile
  /\ response = "none"
PipelineInit ==
  /\ mesh = EmptyMesh
  /\ trace = <<>>
  /\ failedAt = "none"
  /\ result = "pending"
  /\ smoothIn = EmptyMesh
  /\ smoothOut = EmptyMesh
  /\ repairIn = EmptyMesh
RepairIdle == rstep = 0 /\ rpass = 0 /\ rfirst = EmptyMesh
TrimIdle == dens = <<>> /\ removed = {} /\ tdone = FALSE

Init ==
  /\ inp \in Requests
  /\ hashOrder \in HashOrders
  /\ HandlerInit /\ PipelineInit /\ RepairIdle /\ TrimIdle

\* ---------------------------------------------------------- process_model

ProcessModelReturnMut(raised) == "true"

\* The except clause of process_model: the error is printed and False is
\* returned; on the normal path True is returned.
ProcessModelReturn(raised) == IF raised THEN "false" ELSE "true"

\* A stage raised: process_model returns through its except clause.
Raise(stage) ==
  /\ failedAt' = stage
  /\ result' = ProcessModelReturn(TRUE)
  /\ pc' = "respond"

AfterSmoothMut(remove_bumps) == "remove_noise_and_bumps"

\* The stage that follows smoothing.
AfterSmooth(remove_bumps) ==
  IF remove_bumps THEN "remove_noise_and_bumps" ELSE "repair_degenerate"

\* mesh = load_glb_model(input_path): raises when the file yields no vertices.
Load ==
  /\ pc = "load"
  /\ trace' = Append(trace, "load")
  /\ IF inp.fault = "load" \/ ~HasVertices(inp.mesh)
     THEN Raise("load") /\ UNCHANGED mesh
     ELSE mesh' = inp.mesh /\ pc' = "smooth" /\ UNCHANGED <<failedAt, result>>
  /\ UNCHANGED <<inp, inputTmp, inputPath, outputFile, response, smoothIn, smoothOut,
                 repairIn, rvars, tvars, hashOrder>>

\* mesh = smooth_mesh_preserve_texture(mesh, iterations=smooth_iterations)
Smooth ==
  /\ pc = "smooth"
  /\ trace' = Append(trace, "smooth")
  /\ IF inp.fault = "smooth"
     THEN Raise("smooth") /\ UNCHANGED <<mesh, smoothIn, smoothOut>>
     ELSE /\ \E out \in SmoothMeshPreserveTexture(mesh, inp.iterations) :
               mesh' = out /\ smoothOut' = out
          /\ smoothIn' = mesh
          /\ pc' = AfterSmooth(inp.remove_bumps)
          /\ UNCHANGED <<failedAt, result>>
  /\ UNCHANGED <<inp, inputTmp, inputPath, outputFile, response, repairIn, rvars, tvars, hashOrder>>

\* if remove_bumps: mesh = remove_noise_and_bumps(mesh).  Sampling a mesh
\* without triangles raises, and so does the quantile of an empty density
\* array; otherwise the trimmed reconstruction is returned as it is.
RemoveNoiseAndBumps ==
  /\ pc = "remove_noise_and_bumps"
  /\ trace' = Append(trace, "remove_noise_and_bumps")
  /\ \E rec \in ReconOutcomes :
       IF \/ inp.fault = "remove_noise_and_bumps"
          \/ ~HasTriangles(mesh)
          \/ rec.densities = <<>>
       THEN Raise("remove_noise_and_bumps") /\ UNCHANGED mesh
       ELSE /\ mesh' = RemoveVerticesByMask(rec.mesh, VerticesToRemove(rec.densities))
            /\ pc' = "repair_degenerate"
            /\ UNCHANGED <<failedAt, result>>
  /\ UNCHANGED <<inp, inputTmp, inputPath, outputFile, response, smoothIn, smoothOut,
                 repairIn, rvars, tvars, hashOrder>>

\* mesh = make_print_ready(mesh), one mesh operation at a time.
MakePrintReady ==
  /\ \E k \in 1..Len(RepairPcs) :
       /\ pc = RepairPcs[k]
       /\ trace' = IF k = 1 THEN Append(trace, "make_print_ready") ELSE trace
       /\ repairIn' = IF k = 1 THEN mesh ELSE repairIn
       /\ IF k = 1 /\ inp.fault = "make_print_ready"
          THEN Raise("make_print_ready") /\ UNCHANGED mesh
          ELSE /\ mesh' \in RepairStep(RepairPcs[k], mesh, hashOrder)
               /\ pc' = IF k < Len(RepairPcs) THEN RepairPcs[k + 1] ELSE "save"
               /\ UNCHANGED <<failedAt, result>>
  /\ UNCHANGED <<inp, inputTmp, inputPath, outputFile, response, smoothIn, smoothOut,
                 rvars, tvars, hashOrder>>

\* save_glb_model(mesh, output_path), then return True: the writer either
\* writes the file or reports failure, which raises IOError.
Save ==
  /\ pc = "save"
  /\ trace' = Append(trace, "save")
  /\ IF inp.fault = "save"
     THEN Raise("save") /\ UNCHANGED outputFile
     ELSE /\ outputFile' = [exists |-> TRUE, mesh |-> mesh]
          /\ result' = ProcessModelReturn(FALSE)
          /\ pc' = "respond"
          /\ UNCHANGED failedAt
  /\ UNCHANGED <<inp, inputTmp, inputPath, response, mesh, smoothIn, smoothOut, repairIn,
                 rvars, tvars, hashOrder>>

\* ------------------------------------------------------- /process handler

\* The file name check: anything but *.glb is answered 400 before any file is
\* created.
Receive ==
  /\ pc = "start"
  /\ IF inp.filename_ok
     THEN pc' = "upload" /\ UNCHANGED response
     ELSE pc' = "done" /\ response' = "400"
  /\ UNCHANGED <<inp, inputTmp, inputPath, outputFile, pvars, rvars, tvars, hashOrder>>

\* The temporary input file is created, then the upload is read and written
\* into it, then input_path is assigned.  A failing read leaves through the
\* except and finally clauses with input_path still None.
Upload ==
  /\ pc = "upload"
  /\ inputTmp' = TRUE
  /\ IF inp.fault = "read"
     THEN response' = "500" /\ pc' = "done" /\ UNCHANGED inputPath
     ELSE inputPath' = TRUE /\ pc' = "load" /\ UNCHANGED response
  /\ UNCHANGED <<inp, outputFile, pvars, rvars, tvars, hashOrder>>

\* After process_model: a False result raises, which the except clause turns
\* into a 500; otherwise the FileResponse on output_path is built.  Then the
\* finally clause unlinks the input file if input_path is set and the file
\* exists (a failing unlink is logged and ignored).
Respond ==
  /\ pc = "respond"
  /\ IF result = "true"
     THEN response' = "file" /\ pc' = "send"
     ELSE response' = "500" /\ pc' = "done"
  /\ inputTmp' = IF inputPath /\ inputTmp /\ inp.fault # "unlink" THEN FALSE ELSE inputTmp
  /\ UNCHANGED <<inp, inputPath, outputFile, pvars, rvars, tvars, hashOrder>>

\* The framework sends the FileResponse: the file at output_path is read and
\* streamed; nothing removes it.
Send ==
  /\ pc = "send"
  /\ pc' = "done"
  /\ UNCHANGED <<inp, inputTmp, inputPath, outputFile, response, pvars, rvars, tvars, hashOrder>>

Next ==
  \/ Receive
  \/ Upload
  \/ Load
  \/ Smooth
  \/ RemoveNoiseAndBumps
  \/ MakePrintReady
  \/ Save
  \/ Respond
  \/ Send

Spec == Init /\ [][Next]_vars

\* ------------------------------------- make_print_ready applied twice

IdleRequest ==
  [filename_ok |-> FALSE, mesh |-> EmptyMesh, iterations |-> 0, remove_bumps |-> FALSE,
   fault |-> "none"]

HandlerIdle ==
  /\ pc = "idle"
  /\ inp = IdleRequest
  /\ inputTmp = FALSE
  /\ inputPath = FALSE
  /\ outputFile = NoFile
  /\ response = "none"

RepairInit ==
  /\ mesh \in InputMeshes
  /\ hashOrder \in HashOrders
  /\ rstep = 1
  /\ rpass = 1
  /\ rfirst = EmptyMesh
  /\ trace = <<>>
  /\ failedAt = "none"
  /\ result = "pending"
  /\ smoothIn = EmptyMesh
  /\ smoothOut = EmptyMesh
  /\ repairIn = EmptyMesh
  /\ HandlerIdle
  /\ TrimIdle

\* One step of make_print_ready on the mesh; after the last step of the first
\* pass its result is kept and a second pass starts on it.
RepairPass ==
  /\ rstep \in 1..Len(RepairPcs)
  /\ mesh' \in RepairStep(RepairPcs[rstep], mesh, hashOrder)
  /\ IF rstep < Len(RepairPcs)
     THEN rstep' = rstep + 1 /\ UNCHANGED <<rpass, rfirst>>
     ELSE IF rpass = 1
          THEN rstep' = 1 /\ rpass' = 2 /\ rfirst' = mesh'
          ELSE rstep' = Len(RepairPcs) + 1 /\ UNCHANGED <<rpass, rfirst>>
  /\ UNCHANGED <<hvars, trace, failedAt, result, smoothIn, smoothOut, repairIn, tvars,
                 hashOrder>>

SpecRepair == RepairInit /\ [][RepairPass]_vars

\* ------------------------------------------------ density trimming alone

\* bulk vertices of density 7 and low0, low1, low2 vertices of density 3, 1, 2.
DensityArray(bulk, low0, low1, low2) ==
  [i \in 1..(bulk + low0 + low1 + low2) |->
     IF i <= bulk THEN 7
     ELSE IF i <= bulk + low0 THEN 3
     ELSE IF i <= bulk + low0 + low1 THEN 1 ELSE 2]

TrimInit ==
  /\ \E bulk \in 0..MaxBulk, low0 \in 0..MaxLow, low1 \in 0..MaxLow, low2 \in 0..MaxLow :
       /\ bulk + low0 + low1 + low2 >= 1
       /\ dens = DensityArray(bulk, low0, low1, low2)
  /\ removed = {}
  /\ tdone = FALSE
  /\ hashOrder \in HashOrders
  /\ HandlerIdle
  /\ PipelineInit
  /\ RepairIdle

\* vertices_to_remove = densities < np.quantile(densities, 0.01)
Trim ==
  /\ ~tdone
  /\ dens # <<>>
  /\ removed' = VerticesToRemove(dens)
  /\ tdone' = TRUE
  /\ UNCHANGED <<dens, hvars, pvars, rvars, hashOrder>>

SpecTrim == TrimInit /\ [][Trim]_vars

\* ----------------------------------------------------------- properties

ExpectedStages(remove_bumps) ==
  IF remove_bumps
  THEN <<"load", "smooth", "remove_noise_and_bumps", "make_print_ready", "save">>
  ELSE <<"load", "smooth", "make_print_ready", "save">>

\* smooth_mesh_preserve_texture has returned.
SmoothCompleted == "smooth" \in Range(trace) /\ failedAt # "smooth"

\* C1: in every run of process_model the stages entered so far are an initial
\* part of load, smooth, (remove_noise_and_bumps iff remove_bumps),
\* make_print_ready, save - each at most once, in that order - and without
\* remove_bumps the mesh given to make_print_ready is the smoother's result.
C1_StageOrder ==
  /\ Len(trace) <= Len(ExpectedStages(inp.remove_bumps))
  /\ trace = SubSeq(ExpectedStages(inp.remove_bumps), 1, Len(trace))
  /\ ("make_print_ready" \in Range(trace) /\ ~inp.remove_bumps => repairIn = smoothOut)

C1_Witness ==
  /\ pc = "done"
  /\ response = "file"
  /\ ~inp.remove_bumps
  /\ trace = ExpectedStages(FALSE)
  /\ repairIn = smoothOut
  /\ HasTriangles(repairIn)

\* C2: once a stage has raised, it is the last stage entered, no stage was
\* entered twice, process_model has returned False, no output file exists
\* (so no earlier mesh was saved instead), and the request is answered 500,
\* never with a file.
C2_FailFast ==
  failedAt # "none" =>
    /\ pc \in {"respond", "done"}
    /\ trace # <<>>
    /\ trace[Len(trace)] = failedAt
    /\ \A i, j \in 1..Len(trace) : i # j => trace[i] # trace[j]
    /\ result = "false"
    /\ outputFile = NoFile
    /\ response \in {"none", "500"}
    /\ (pc = "done" => response = "500")

C2_Witness ==
  /\ failedAt = "save"
  /\ pc = "done"
  /\ response = "500"
  /\ Len(trace) = 5

\* C3: with remove_bumps set, a reconstruction that is empty or without
\* triangles after density trimming makes the stage fail: make_print_ready is
\* never given such a mesh and no output is saved from it.
C3_EmptyReconstructionFails ==
  inp.remove_bumps /\ "make_print_ready" \in Range(trace) =>
    Len(repairIn.verts) > 0 /\ Len(repairIn.tris) > 0

\* The rotations of a triangle's index triple.
Rotations(t) == {t, <<t[2], t[3], t[1]>>, <<t[3], t[1], t[2]>>}

NoDegenerateTriangles(m) == \A i \in 1..Len(m.tris) : NonDegenerate(m.tris[i])
NoDuplicatedTriangles(m) ==
  \A i, j \in 1..Len(m.tris) : i < j => m.tris[j] \notin Rotations(m.tris[i])

\* A pass of make_print_ready has just ended.
PassEnded == (rpass = 2 /\ rstep = 1) \/ rstep = Len(RepairPcs) + 1

\* C4: the mesh make_print_ready returns has no triangle naming a vertex
\* twice and no two triangles with the same index triple up to rotation.
C4_NoDegenerateNoDuplicate ==
  PassEnded => NoDegenerateTriangles(mesh) /\ NoDuplicatedTriangles(mesh)

\* C5: make_print_ready applied to its own result returns that result: the
\* same vertices and the same triangles with the same winding.
C5_RepairIdempotent ==
  rstep = Len(RepairPcs) + 1 => mesh.verts = rfirst.verts /\ mesh.tris = rfirst.tris

\* C6: with iterations = 0 the smoother returns its input: positions,
\* triangles, UVs, colours and normals (presence and values) unchanged.
C6_ZeroIterationIdentity ==
  SmoothCompleted /\ inp.iterations = 0 => smoothOut = smoothIn

\* C7: the smoother's result has the input's vertex count, triangle list, UV
\* array and colour array.
C7_TopologyPreserved ==
  SmoothCompleted =>
    /\ Len(smoothOut.verts) = Len(smoothIn.verts)
    /\ smoothOut.tris = smoothIn.tris
    /\ smoothOut.uvs = smoothIn.uvs
    /\ smoothOut.colors = smoothIn.colors

C7_Witness ==
  /\ SmoothCompleted
  /\ inp.iterations >= 1
  /\ smoothOut.verts # smoothIn.verts
  /\ HasTriangleUvs(smoothIn)
  /\ HasVertexColors(smoothIn)

\* A present UV array has 3 entries per triangle, a present colour array one
\* per vertex.
Aligned(m) ==
  /\ (m.uvs # <<>> => Len(m.uvs) = 3 * Len(m.tris))
  /\ (m.colors # <<>> => Len(m.colors) = Len(m.verts))

\* C8: at every stage boundary from the smoother's return on (after
\* remove_noise_and_bumps, after each step of make_print_ready) the mesh's
\* attribute arrays are aligned with its triangles and vertices.
C8_AttributesAligned == SmoothCompleted => Aligned(mesh)

\* C9 as stated: for a reconstruction of at least 100 vertices, trimming
\* removes at least 0.5% and at most about 2% of the vertices.
C9_TrimFraction ==
  tdone /\ Len(dens) >= 100 =>
    /\ 1000 * Cardinality(removed) >= 5 * Len(dens)
    /\ 100 * Cardinality(removed) <= 2 * Len(dens) + 100

\* C9 amended: with a and b the order statistics around position (n - 1) / 100,
\* trimming removes exactly the vertices of density <= a when the position is
\* fractional and a < b, and those of density < a otherwise; it removes at
\* most ceil((n - 1) / 100) vertices, never all of them, and none when all
\* densities are equal.
C9_TrimRule ==
  tdone =>
    LET n == Len(dens)
        k == (n - 1) \div 100
        r == (n - 1) % 100
        a == OrderStat(dens, k + 1)
        strict == r = 0 \/ OrderStat(dens, k + 2) = a
    IN  /\ removed = {i \in 1..n : IF strict THEN dens[i] < a ELSE dens[i] <= a}
        /\ Cardinality(removed) <= k + (IF r > 0 THEN 1 ELSE 0)
        /\ Cardinality(removed) < n
        /\ (Cardinality(Range(dens)) = 1 => removed = {})

C9_Witness ==
  /\ tdone
  /\ Len(dens) >= 102
  /\ Cardinality(removed) = 2

\* C10: when a request that passed the file name check is over, neither its
\* temporary input file nor its temporary output file is left on disk.
C10_TempFilesRemoved ==
  pc = "done" /\ inp.filename_ok => ~inputTmp /\ ~outputFile.exists

====
